---- MODULE Spec2Model ----
(***************************************************************************)
(* Parser combinators of unitas: a parser is a pure function from an       *)
(* input string to a result, either failure (null) or success, a pair of   *)
(* a value and the remaining input.  A combinator run is modelled one      *)
(* sub-parser invocation per step, so that the order of invocations, the   *)
(* input each one is given and the termination of the loops are visible.   *)
(*                                                                         *)
(* Strings are sequences of one-character strings.  Values are integers;   *)
(* operator parsers yield the name of a function, applied by Apply1 and    *)
(* Apply2.                                                                  *)
(***************************************************************************)
EXTENDS Integers, Sequences, FiniteSets, TLC

VARIABLES
    comb,       \* the combinator whose parser is running
    parsers,    \* the sub-parsers it was built from, in argument order
    input,      \* the input the combinator's parser was called with
    pc,         \* position in the combinator's body
    remaining,  \* the local `remaining`
    results,    \* the local `results` / `operators` array
    acc,        \* the local `accumulator` / `value` / `leftValue`
    pending,    \* the last separator / operator result, awaiting the next item / term
    idx,        \* position of the for-of loop over `parsers`
    stack,      \* call stack of nested rightAssoc invocations
    ret,        \* the value a nested invocation returned
    result,     \* what the combinator's parser returned
    calls,      \* history: every sub-parser invocation, in order
    seen,       \* history: the inputs at which the running loop was entered
    definitions,\* grammar: rule name -> its definition thunk
    cache,      \* grammar: rule name -> cached parser (NoParser when empty)
    thunkCalls, \* history: rule name -> how often its definition thunk was called
    cacheWrites,\* history: rule name -> how often its cache cell was assigned
    gstack,     \* grammar: the rule parsers being invoked, outermost first
    gret,       \* grammar: the result the innermost finished invocation returned
    gpc,        \* grammar: position of the innermost invocation
    glog,       \* history: the finished top-level invocations, in order
    built,      \* grammar: the rule names whose lazy parser grammar() has created
    invoked     \* history: rule name -> how often its parser was invoked

combVars == <<comb, parsers, input, pc, remaining, results, acc, pending, idx,
              stack, ret, result, calls, seen>>
gramVars == <<definitions, cache, thunkCalls, cacheWrites, gstack, gret, gpc, glog,
              built, invoked>>
vars == <<combVars, gramVars>>

(***************************************************************************)
(* Bounds of the model.                                                    *)
(***************************************************************************)
MaxLen == 3        \* longest input
MaxParsers == 2    \* most parsers given to sequence / choice
MaxChain == 5      \* longest input given to the operator combinators
MaxInvocations == 3 \* top-level invocations of one grammar instance's rule parsers
MaxCount == 2      \* largest n given to count / atMost
MaxTransforms == 2 \* most transforms given to map
MaxExpected == 2   \* longest string given to char

Alphabet == {"1", "2", "-", "+"}
Str == UNION {[1..n -> Alphabet] : n \in 0..MaxLen}
OpStr == UNION {[1..n -> Alphabet] : n \in 0..MaxChain}

\* inputs with white space in them
WsAlphabet == {"1", "-", " "}
WsStr == UNION {[1..n -> WsAlphabet] : n \in 0..MaxLen}

(***************************************************************************)
(* Result protocol.                                                        *)
(***************************************************************************)
success(value, rem) == [ok |-> TRUE, val |-> value, rem |-> rem]
failure == [ok |-> FALSE]

Code(c) == CASE c = "1" -> 1 [] c = "2" -> 2 [] c = "-" -> 45 [] c = "+" -> 43
            [] c = " " -> 32

(***************************************************************************)
(* The sub-parsers handed to the combinators.  Each is a pure function of  *)
(* its input.  "rot" is a parser that does not return a suffix of its      *)
(* input: the Parser type is any function (input) => Result.               *)
(***************************************************************************)
Run(p, s) ==
    CASE p = "digit"  -> IF s # <<>> /\ Head(s) \in {"1", "2"}
                         THEN success(Code(Head(s)), Tail(s)) ELSE failure
      [] p = "dash"   -> IF s # <<>> /\ Head(s) = "-"
                         THEN success(Code(Head(s)), Tail(s)) ELSE failure
      [] p = "any"    -> IF s # <<>> THEN success(Code(Head(s)), Tail(s)) ELSE failure
      [] p = "binop"  -> IF s # <<>> /\ Head(s) = "-" THEN success("sub", Tail(s))
                         ELSE IF s # <<>> /\ Head(s) = "+" THEN success("add", Tail(s))
                         ELSE failure
      [] p = "unop"   -> IF s # <<>> /\ Head(s) = "-" THEN success("neg", Tail(s))
                         ELSE IF s # <<>> /\ Head(s) = "+" THEN success("abs", Tail(s))
                         ELSE failure
      [] p = "eps"    -> success(0, s)
      [] p = "epsBin" -> success("sub", s)
      [] p = "epsUn"  -> success("neg", s)
      [] p = "rot"    -> IF s # <<>> THEN success(0, Tail(s) \o <<Head(s)>>) ELSE failure
      [] p = "fail"   -> failure
      \* optionalMaybe(digit): the value of its success is null when digit fails
      [] p = "maybe"  -> IF s # <<>> /\ Head(s) \in {"1", "2"}
                         THEN success(Code(Head(s)), Tail(s))
                         ELSE [ok |-> TRUE, val |-> "null", rem |-> s, null |-> TRUE]

Apply2(f, a, b) == CASE f = "sub" -> a - b [] f = "add" -> a + b
Apply1(f, a) == CASE f = "neg" -> 0 - a [] f = "abs" -> IF a < 0 THEN 0 - a ELSE a
                  [] f = "id" -> a

ValueParsers == {"digit", "dash", "any", "eps", "rot", "fail"}
AlgParsers == {"digit", "dash", "eps", "fail"}
SepParsers == {"dash", "eps", "fail"}
TermParsers == {"digit", "eps", "fail"}
BinOpParsers == {"binop", "epsBin", "fail"}
UnOpParsers == {"unop", "epsUn", "fail"}

ParserLists == UNION {[1..n -> AlgParsers] : n \in 0..MaxParsers}

\* default values, transforms
DefaultValues == {0, 7}
Transforms == {"neg", "abs", "id"}
TransformLists == UNION {[1..n -> Transforms] : n \in 0..MaxTransforms}

Call(who, s, r) == [who |-> who, inp |-> s, res |-> r]


(***************************************************************************)
(* many(parser)                                                            *)
(***************************************************************************)
manyNoProgressUnchecked(r, rem) == FALSE

\* Prevent infinite loop: if (result[1] === remaining) break
manyNoProgress(r, rem) == r.rem = rem

ManyStep ==
    /\ comb = "many" /\ pc = "loop"
    /\ LET r == Run(parsers[1], remaining) IN
       /\ calls' = Append(calls, Call("item", remaining, r))
       /\ IF ~r.ok \/ manyNoProgress(r, remaining)
          THEN /\ pc' = "done"
               /\ result' = success(results, remaining)
               /\ UNCHANGED <<results, remaining, seen>>
          ELSE /\ results' = Append(results, r.val)
               /\ remaining' = r.rem
               /\ seen' = seen \cup {r.rem}
               /\ pc' = IF r.rem \in seen THEN "diverged" ELSE "loop"
               /\ UNCHANGED result
    /\ UNCHANGED <<comb, parsers, input, acc, pending, idx, stack, ret>>
    /\ UNCHANGED gramVars

(***************************************************************************)
(* sepBy(parser, separator)                                                *)
(***************************************************************************)
sepByStopConsumingSeparator(items, rem, sepResult) == success(items, sepResult.rem)

\* separator matched but parser failed: break, `remaining` still before the separator
sepByStop(items, rem, sepResult) == success(items, rem)

SepByFirst ==
    /\ comb = "sepBy" /\ pc = "first"
    /\ LET r == Run(parsers[1], input) IN
       /\ calls' = Append(calls, Call("item", input, r))
       /\ IF ~r.ok
          THEN /\ pc' = "done" /\ result' = success(<<>>, input)
               /\ UNCHANGED <<results, remaining, seen>>
          ELSE /\ results' = <<r.val>>
               /\ remaining' = r.rem
               /\ seen' = {r.rem}
               /\ pc' = "sep"
               /\ UNCHANGED result
    /\ UNCHANGED <<comb, parsers, input, acc, pending, idx, stack, ret>>
    /\ UNCHANGED gramVars

SepBySeparator ==
    /\ comb = "sepBy" /\ pc = "sep"
    /\ LET s == Run(parsers[2], remaining) IN
       /\ calls' = Append(calls, Call("sep", remaining, s))
       /\ IF ~s.ok
          THEN /\ pc' = "done" /\ result' = success(results, remaining)
               /\ UNCHANGED pending
          ELSE /\ pending' = s /\ pc' = "item" /\ UNCHANGED result
    /\ UNCHANGED <<comb, parsers, input, remaining, results, acc, idx, stack, ret, seen>>
    /\ UNCHANGED gramVars

SepByItem ==
    /\ comb = "sepBy" /\ pc = "item"
    /\ LET n == Run(parsers[1], pending.rem) IN
       /\ calls' = Append(calls, Call("item", pending.rem, n))
       /\ IF ~n.ok
          THEN /\ pc' = "done" /\ result' = sepByStop(results, remaining, pending)
               /\ UNCHANGED <<results, remaining, seen>>
          ELSE /\ results' = Append(results, n.val)
               /\ remaining' = n.rem
               /\ seen' = seen \cup {n.rem}
               /\ pc' = IF n.rem \in seen THEN "diverged" ELSE "sep"
               /\ UNCHANGED result
    /\ UNCHANGED <<comb, parsers, input, acc, pending, idx, stack, ret>>
    /\ UNCHANGED gramVars

(***************************************************************************)
(* interleaved(item, separator)                                            *)
(***************************************************************************)
interleavedPushItemOnly(res, sepResult, nextResult) == Append(res, nextResult.val)

\* results.push(sepResult[0]); results.push(nextResult[0])
interleavedPush(res, sepResult, nextResult) == res \o <<sepResult.val, nextResult.val>>

InterleavedFirst ==
    /\ comb = "interleaved" /\ pc = "first"
    /\ LET r == Run(parsers[1], input) IN
       /\ calls' = Append(calls, Call("item", input, r))
       /\ IF ~r.ok
          THEN /\ pc' = "done" /\ result' = success(<<>>, input)
               /\ UNCHANGED <<results, remaining, seen>>
          ELSE /\ results' = <<r.val>>
               /\ remaining' = r.rem
               /\ seen' = {r.rem}
               /\ pc' = "sep"
               /\ UNCHANGED result
    /\ UNCHANGED <<comb, parsers, input, acc, pending, idx, stack, ret>>
    /\ UNCHANGED gramVars

InterleavedSeparator ==
    /\ comb = "interleaved" /\ pc = "sep"
    /\ LET s == Run(parsers[2], remaining) IN
       /\ calls' = Append(calls, Call("sep", remaining, s))
       /\ IF ~s.ok
          THEN /\ pc' = "done" /\ result' = success(results, remaining)
               /\ UNCHANGED pending
          ELSE /\ pending' = s /\ pc' = "item" /\ UNCHANGED result
    /\ UNCHANGED <<comb, parsers, input, remaining, results, acc, idx, stack, ret, seen>>
    /\ UNCHANGED gramVars

InterleavedItem ==
    /\ comb = "interleaved" /\ pc = "item"
    /\ LET n == Run(parsers[1], pending.rem) IN
       /\ calls' = Append(calls, Call("item", pending.rem, n))
       /\ IF ~n.ok
          THEN /\ pc' = "done" /\ result' = success(results, remaining)
               /\ UNCHANGED <<results, remaining, seen>>
          ELSE /\ results' = interleavedPush(results, pending, n)
               /\ remaining' = n.rem
               /\ seen' = seen \cup {n.rem}
               /\ pc' = IF n.rem \in seen THEN "diverged" ELSE "sep"
               /\ UNCHANGED result
    /\ UNCHANGED <<comb, parsers, input, acc, pending, idx, stack, ret>>
    /\ UNCHANGED gramVars

(***************************************************************************)
(* choice(...parsers)                                                      *)
(***************************************************************************)
choiceParserReversed(ps, i) == ps[Len(ps) + 1 - i]

\* for (const parser of parsers): the i-th parser tried is the i-th listed
choiceParser(ps, i) == ps[i]

ChoiceTry ==
    /\ comb = "choice" /\ pc = "try" /\ idx <= Len(parsers)
    /\ LET r == Run(choiceParser(parsers, idx), input) IN
       /\ calls' = Append(calls, Call(idx, input, r))
       /\ IF r.ok
          THEN pc' = "done" /\ result' = r /\ UNCHANGED idx
          ELSE idx' = idx + 1 /\ UNCHANGED <<pc, result>>
    /\ UNCHANGED <<comb, parsers, input, remaining, results, acc, pending, stack, ret, seen>>
    /\ UNCHANGED gramVars

ChoiceFail ==
    /\ comb = "choice" /\ pc = "try" /\ idx > Len(parsers)
    /\ pc' = "done" /\ result' = failure
    /\ UNCHANGED <<comb, parsers, input, remaining, results, acc, pending, idx, stack,
                   ret, calls, seen>>
    /\ UNCHANGED gramVars

(***************************************************************************)
(* sequence(...parsers)                                                    *)
(***************************************************************************)
sequenceThreadNotAdvancing(rem, r) == rem

\* remaining = result[1]
sequenceThread(rem, r) == r.rem

SequenceRun ==
    /\ comb = "sequence" /\ pc = "run" /\ idx <= Len(parsers)
    /\ LET r == Run(parsers[idx], remaining) IN
       /\ calls' = Append(calls, Call(idx, remaining, r))
       /\ IF ~r.ok
          THEN /\ pc' = "done" /\ result' = failure
               /\ UNCHANGED <<results, remaining, idx>>
          ELSE /\ results' = Append(results, r.val)
               /\ remaining' = sequenceThread(remaining, r)
               /\ idx' = idx + 1
               /\ UNCHANGED <<pc, result>>
    /\ UNCHANGED <<comb, parsers, input, acc, pending, stack, ret, seen>>
    /\ UNCHANGED gramVars

SequenceReturn ==
    /\ comb = "sequence" /\ pc = "run" /\ idx > Len(parsers)
    /\ pc' = "done" /\ result' = success(results, remaining)
    /\ UNCHANGED <<comb, parsers, input, remaining, results, acc, pending, idx, stack,
                   ret, calls, seen>>
    /\ UNCHANGED gramVars

(***************************************************************************)
(* leftAssoc(term, operator)                                               *)
(***************************************************************************)
leftAssocFoldSwapped(f, accumulator, next) == Apply2(f, next, accumulator)

\* accumulator = opResult[0](accumulator, nextResult[0])
leftAssocFold(f, accumulator, next) == Apply2(f, accumulator, next)

leftAssocStopAfterOperator(accumulator, rem, opResult) == success(accumulator, opResult.rem)

\* operator matched but term failed: break, `remaining` still before the operator
leftAssocStop(accumulator, rem, opResult) == success(accumulator, rem)

LeftAssocFirst ==
    /\ comb = "leftAssoc" /\ pc = "first"
    /\ LET r == Run(parsers[1], input) IN
       /\ calls' = Append(calls, Call("term", input, r))
       /\ IF ~r.ok
          THEN /\ pc' = "done" /\ result' = failure
               /\ UNCHANGED <<acc, remaining, seen>>
          ELSE /\ acc' = r.val
               /\ remaining' = r.rem
               /\ seen' = {r.rem}
               /\ pc' = "op"
               /\ UNCHANGED result
    /\ UNCHANGED <<comb, parsers, input, results, pending, idx, stack, ret>>
    /\ UNCHANGED gramVars

LeftAssocOperator ==
    /\ comb = "leftAssoc" /\ pc = "op"
    /\ LET o == Run(parsers[2], remaining) IN
       /\ calls' = Append(calls, Call("op", remaining, o))
       /\ IF ~o.ok
          THEN /\ pc' = "done" /\ result' = success(acc, remaining)
               /\ UNCHANGED pending
          ELSE /\ pending' = o /\ pc' = "term" /\ UNCHANGED result
    /\ UNCHANGED <<comb, parsers, input, remaining, results, acc, idx, stack, ret, seen>>
    /\ UNCHANGED gramVars

LeftAssocTerm ==
    /\ comb = "leftAssoc" /\ pc = "term"
    /\ LET n == Run(parsers[1], pending.rem) IN
       /\ calls' = Append(calls, Call("term", pending.rem, n))
       /\ IF ~n.ok
          THEN /\ pc' = "done" /\ result' = leftAssocStop(acc, remaining, pending)
               /\ UNCHANGED <<acc, remaining, seen>>
          ELSE /\ acc' = leftAssocFold(pending.val, acc, n.val)
               /\ remaining' = n.rem
               /\ seen' = seen \cup {n.rem}
               /\ pc' = IF n.rem \in seen THEN "diverged" ELSE "op"
               /\ UNCHANGED result
    /\ UNCHANGED <<comb, parsers, input, results, pending, idx, stack, ret>>
    /\ UNCHANGED gramVars

(***************************************************************************)
(* rightAssoc(term, operator): every nested rightAssoc(term, operator)     *)
(* call is a frame of `stack`, holding the caller's tryRightSide locals.   *)
(***************************************************************************)
rightAssocCombineSwapped(f, leftValue, right) == Apply2(f, right, leftValue)

\* combinedValue = opResult[0](leftValue, rightResult[0])
rightAssocCombine(f, leftValue, right) == Apply2(f, leftValue, right)

RightAssocTerm ==
    /\ comb = "rightAssoc" /\ pc = "term"
    /\ LET r == Run(parsers[1], remaining) IN
       /\ calls' = Append(calls, Call("term", remaining, r))
       /\ IF ~r.ok
          THEN /\ ret' = failure /\ pc' = "ret"
               /\ UNCHANGED <<acc, remaining>>
          ELSE /\ acc' = r.val /\ remaining' = r.rem /\ pc' = "op"
               /\ UNCHANGED ret
    /\ UNCHANGED <<comb, parsers, input, results, pending, idx, stack, result, seen>>
    /\ UNCHANGED gramVars

RightAssocOperator ==
    /\ comb = "rightAssoc" /\ pc = "op"
    /\ LET o == Run(parsers[2], remaining) IN
       /\ calls' = Append(calls, Call("op", remaining, o))
       /\ IF ~o.ok
          THEN /\ ret' = success(acc, remaining) /\ pc' = "ret"
               /\ UNCHANGED <<stack, remaining, seen>>
          ELSE /\ stack' = Append(stack, [left |-> acc, rem |-> remaining, fn |-> o.val])
               /\ remaining' = o.rem
               /\ seen' = seen \cup {o.rem}
               /\ pc' = IF o.rem \in seen THEN "diverged" ELSE "term"
               /\ UNCHANGED ret
    /\ UNCHANGED <<comb, parsers, input, results, acc, pending, idx, result>>
    /\ UNCHANGED gramVars

RightAssocUnwind ==
    /\ comb = "rightAssoc" /\ pc = "ret" /\ stack # <<>>
    /\ LET f == stack[Len(stack)] IN
       /\ ret' = IF ~ret.ok
                 THEN success(f.left, f.rem)
                 ELSE success(rightAssocCombine(f.fn, f.left, ret.val), ret.rem)
       /\ stack' = SubSeq(stack, 1, Len(stack) - 1)
    /\ UNCHANGED <<comb, parsers, input, pc, remaining, results, acc, pending, idx,
                   result, calls, seen>>
    /\ UNCHANGED gramVars

RightAssocReturn ==
    /\ comb = "rightAssoc" /\ pc = "ret" /\ stack = <<>>
    /\ pc' = "done" /\ result' = ret
    /\ UNCHANGED <<comb, parsers, input, remaining, results, acc, pending, idx, stack,
                   ret, calls, seen>>
    /\ UNCHANGED gramVars

(***************************************************************************)
(* prefix(operator, atom)                                                  *)
(***************************************************************************)
RECURSIVE reduce(_, _)
\* operators.reduce((value, op) => op(value), initial): first operator first
reduce(operators, initial) ==
    IF operators = <<>> THEN initial
    ELSE reduce(Tail(operators), Apply1(Head(operators), initial))

RECURSIVE reduceRight(_, _)
\* operators.reduceRight((value, op) => op(value), initial): last operator first
reduceRight(operators, initial) ==
    IF operators = <<>> THEN initial
    ELSE reduceRight(SubSeq(operators, 1, Len(operators) - 1),
                     Apply1(operators[Len(operators)], initial))

prefixFinalValueLeftToRight(operators, atomValue) == reduce(operators, atomValue)

\* finalValue = operators.reduceRight((value, op) => op(value), atomResult[0])
prefixFinalValue(operators, atomValue) == reduceRight(operators, atomValue)

PrefixOperator ==
    /\ comb = "prefix" /\ pc = "op"
    /\ LET o == Run(parsers[1], remaining) IN
       /\ calls' = Append(calls, Call("op", remaining, o))
       /\ IF ~o.ok
          THEN pc' = "atom" /\ UNCHANGED <<results, remaining, seen>>
          ELSE /\ results' = Append(results, o.val)
               /\ remaining' = o.rem
               /\ seen' = seen \cup {o.rem}
               /\ pc' = IF o.rem \in seen THEN "diverged" ELSE "op"
    /\ UNCHANGED <<comb, parsers, input, acc, pending, idx, stack, ret, result>>
    /\ UNCHANGED gramVars

PrefixAtom ==
    /\ comb = "prefix" /\ pc = "atom"
    /\ LET a == Run(parsers[2], remaining) IN
       /\ calls' = Append(calls, Call("atom", remaining, a))
       /\ pc' = "done"
       /\ result' = IF ~a.ok THEN failure
                    ELSE success(prefixFinalValue(results, a.val), a.rem)
    /\ UNCHANGED <<comb, parsers, input, remaining, results, acc, pending, idx, stack,
                   ret, seen>>
    /\ UNCHANGED gramVars

(***************************************************************************)
(* postfix(atom, operator)                                                 *)
(***************************************************************************)
postfixValueOfAtom(f, value, atomValue) == Apply1(f, atomValue)

\* value = opResult[0](value)
postfixValue(f, value, atomValue) == Apply1(f, value)

PostfixAtom ==
    /\ comb = "postfix" /\ pc = "atom"
    /\ LET a == Run(parsers[1], input) IN
       /\ calls' = Append(calls, Call("atom", input, a))
       /\ IF ~a.ok
          THEN /\ pc' = "done" /\ result' = failure
               /\ UNCHANGED <<acc, remaining, seen>>
          ELSE /\ acc' = a.val
               /\ remaining' = a.rem
               /\ seen' = {a.rem}
               /\ pc' = "op"
               /\ UNCHANGED result
    /\ UNCHANGED <<comb, parsers, input, results, pending, idx, stack, ret>>
    /\ UNCHANGED gramVars

PostfixOperator ==
    /\ comb = "postfix" /\ pc = "op"
    /\ LET o == Run(parsers[2], remaining) IN
       /\ calls' = Append(calls, Call("op", remaining, o))
       /\ IF ~o.ok
          THEN /\ pc' = "done" /\ result' = success(acc, remaining)
               /\ UNCHANGED <<acc, remaining, seen>>
          ELSE /\ acc' = postfixValue(o.val, acc, calls[1].res.val)
               /\ remaining' = o.rem
               /\ seen' = seen \cup {o.rem}
               /\ pc' = IF o.rem \in seen THEN "diverged" ELSE "op"
               /\ UNCHANGED result
    /\ UNCHANGED <<comb, parsers, input, results, pending, idx, stack, ret>>
    /\ UNCHANGED gramVars

(***************************************************************************)
(* parse(parser, input).  It returns a value or null, not a Result: null   *)
(* is `failure`, any other value v is [ok |-> TRUE, val |-> v].            *)
(***************************************************************************)
IsWhiteSpace(c) == c = " "

RECURSIVE trimStart(_)
trimStart(s) == IF s # <<>> /\ IsWhiteSpace(Head(s)) THEN trimStart(Tail(s)) ELSE s

RECURSIVE trimEnd(_)
trimEnd(s) == IF s # <<>> /\ IsWhiteSpace(s[Len(s)])
              THEN trimEnd(SubSeq(s, 1, Len(s) - 1)) ELSE s

\* String.prototype.trim: white space removed from both ends
trim(s) == trimEnd(trimStart(s))

\* the value of a success is the JavaScript value null
IsNullValue(r) == "null" \in DOMAIN r

\* what the caller of parse receives for result[0]: null is null, whether
\* it is the value of a success or the failure indicator
returned(r) == IF IsNullValue(r) THEN failure ELSE [ok |-> TRUE, val |-> r.val]

parseRemainingInputUntrimmed(r) == r.rem

\* const remainingInput = result[1].trim()
parseRemainingInput(r) == trim(r.rem)

ParseRun ==
    /\ comb = "parse" /\ pc = "run"
    /\ LET r == Run(parsers[1], input) IN
       /\ calls' = Append(calls, Call("parser", input, r))
       /\ result' = IF ~r.ok THEN failure
                    ELSE IF parseRemainingInput(r) = <<>> THEN returned(r)
                    ELSE failure
    /\ pc' = "done"
    /\ UNCHANGED <<comb, parsers, input, remaining, results, acc, pending, idx, stack,
                   ret, seen>>
    /\ UNCHANGED gramVars

(***************************************************************************)
(* optional(parser, defaultValue), optionalMaybe(parser).  The arguments   *)
(* are kept in `parsers` in argument order: <<parser, defaultValue>>.      *)
(***************************************************************************)
optionalDefaultFailing(defaultValue, s) == failure

\* result ? success(...result) : success(defaultValue, input)
optionalDefault(defaultValue, s) == success(defaultValue, s)

OptionalRun ==
    /\ comb = "optional" /\ pc = "run"
    /\ LET r == Run(parsers[1], input) IN
       /\ calls' = Append(calls, Call("parser", input, r))
       /\ result' = IF r.ok THEN success(r.val, r.rem)
                    ELSE optionalDefault(parsers[2], input)
    /\ pc' = "done"
    /\ UNCHANGED <<comb, parsers, input, remaining, results, acc, pending, idx, stack,
                   ret, seen>>
    /\ UNCHANGED gramVars

OptionalMaybeRun ==
    /\ comb = "optionalMaybe" /\ pc = "run"
    /\ LET r == Run(parsers[1], input) IN
       /\ calls' = Append(calls, Call("parser", input, r))
       /\ result' = IF r.ok THEN success(r.val, r.rem)
                    ELSE optionalDefault("null", input)
    /\ pc' = "done"
    /\ UNCHANGED <<comb, parsers, input, remaining, results, acc, pending, idx, stack,
                   ret, seen>>
    /\ UNCHANGED gramVars

(***************************************************************************)
(* many(parser)(s) as a function of s, for the combinators that call it.   *)
(* `loops` marks a run that comes back to an input it already was at.      *)
(***************************************************************************)
loops == [ok |-> FALSE, loops |-> TRUE]

Loops(r) == "loops" \in DOMAIN r

RECURSIVE manyLoop(_, _, _, _)
manyLoop(p, rem, res, visited) ==
    LET r == Run(p, rem) IN
    IF ~r.ok \/ manyNoProgress(r, rem) THEN success(res, rem)
    ELSE IF r.rem \in visited THEN loops
    ELSE manyLoop(p, r.rem, Append(res, r.val), visited \cup {r.rem})

many(p, s) == manyLoop(p, s, <<>>, {s})

(***************************************************************************)
(* sepBy(parser, separator)(s) and sepBy1(parser, separator)(s) as         *)
(* functions of s, for the combinators that call them.                     *)
(***************************************************************************)
RECURSIVE sepByLoop(_, _, _, _, _)
sepByLoop(p, sep, rem, res, visited) ==
    LET sepResult == Run(sep, rem) IN
    IF ~sepResult.ok THEN success(res, rem)
    ELSE LET nextResult == Run(p, sepResult.rem) IN
         IF ~nextResult.ok THEN sepByStop(res, rem, sepResult)
         ELSE IF nextResult.rem \in visited THEN loops
         ELSE sepByLoop(p, sep, nextResult.rem, Append(res, nextResult.val),
                        visited \cup {nextResult.rem})

sepBy(p, sep, s) ==
    LET firstResult == Run(p, s) IN
    IF ~firstResult.ok THEN success(<<>>, s)
    ELSE sepByLoop(p, sep, firstResult.rem, <<firstResult.val>>, {firstResult.rem})

\* if (values.length === 0) return failure()
sepBy1(p, sep, s) ==
    LET r == sepBy(p, sep, s) IN
    IF Loops(r) THEN loops ELSE IF Len(r.val) = 0 THEN failure ELSE r

(***************************************************************************)
(* sepEndBy(parser, separator), sepEndBy1(parser, separator)               *)
(***************************************************************************)
sepEndByRemainingBeforeSeparator(rem, sepResult) == rem

\* success(values, sepResult ? sepResult[1] : remaining)
sepEndByRemaining(rem, sepResult) == IF sepResult.ok THEN sepResult.rem ELSE rem

\* const result = sepBy(parser, separator)(input) / sepBy1(parser, separator)(input)
SepEndByItems ==
    /\ comb \in {"sepEndBy", "sepEndBy1"} /\ pc = "items"
    /\ LET r == IF comb = "sepEndBy" THEN sepBy(parsers[1], parsers[2], input)
                ELSE sepBy1(parsers[1], parsers[2], input)
       IN IF Loops(r)
          THEN pc' = "diverged" /\ UNCHANGED <<results, remaining, result>>
          ELSE IF ~r.ok
          THEN pc' = "done" /\ result' = failure /\ UNCHANGED <<results, remaining>>
          ELSE /\ results' = r.val
               /\ remaining' = r.rem
               /\ pc' = "trailing"
               /\ UNCHANGED result
    /\ UNCHANGED <<comb, parsers, input, acc, pending, idx, stack, ret, calls, seen>>
    /\ UNCHANGED gramVars

\* const sepResult = separator(remaining)
SepEndByTrailing ==
    /\ comb \in {"sepEndBy", "sepEndBy1"} /\ pc = "trailing"
    /\ LET sepResult == Run(parsers[2], remaining) IN
       /\ calls' = Append(calls, Call("sep", remaining, sepResult))
       /\ result' = success(results, sepEndByRemaining(remaining, sepResult))
    /\ pc' = "done"
    /\ UNCHANGED <<comb, parsers, input, remaining, results, acc, pending, idx, stack,
                   ret, seen>>
    /\ UNCHANGED gramVars

(***************************************************************************)
(* endBy(parser, terminator) =                                             *)
(*   many(map(sequence(parser, terminator), ([value]) => value))           *)
(***************************************************************************)
endByItemUnterminated(a, b) == IF ~b.ok THEN success(a.val, a.rem) ELSE success(a.val, b.rem)

\* sequence fails when the terminator fails; map keeps the first value
endByItem(a, b) == IF ~b.ok THEN failure ELSE success(a.val, b.rem)

\* one iteration of many over the sequence of parser and terminator
EndByStep ==
    /\ comb = "endBy" /\ pc = "loop"
    /\ LET a == Run(parsers[1], remaining)
           b == Run(parsers[2], a.rem)
           r == IF ~a.ok THEN failure ELSE endByItem(a, b)
       IN /\ calls' = IF ~a.ok THEN Append(calls, Call("item", remaining, a))
                      ELSE calls \o <<Call("item", remaining, a), Call("term", a.rem, b)>>
          /\ IF ~r.ok \/ manyNoProgress(r, remaining)
             THEN /\ pc' = "done"
                  /\ result' = success(results, remaining)
                  /\ UNCHANGED <<results, remaining, seen>>
             ELSE /\ results' = Append(results, r.val)
                  /\ remaining' = r.rem
                  /\ seen' = seen \cup {r.rem}
                  /\ pc' = IF r.rem \in seen THEN "diverged" ELSE "loop"
                  /\ UNCHANGED result
    /\ UNCHANGED <<comb, parsers, input, acc, pending, idx, stack, ret>>
    /\ UNCHANGED gramVars

(***************************************************************************)
(* until(parser, terminator)                                               *)
(***************************************************************************)
UntilTerminator ==
    /\ comb = "until" /\ pc = "term"
    /\ LET termResult == Run(parsers[2], remaining) IN
       /\ calls' = Append(calls, Call("term", remaining, termResult))
       /\ IF termResult.ok
          THEN pc' = "done" /\ result' = success(results, remaining)
          ELSE pc' = "item" /\ UNCHANGED result
    /\ UNCHANGED <<comb, parsers, input, remaining, results, acc, pending, idx, stack,
                   ret, seen>>
    /\ UNCHANGED gramVars

UntilParser ==
    /\ comb = "until" /\ pc = "item"
    /\ LET parseResult == Run(parsers[1], remaining) IN
       /\ calls' = Append(calls, Call("item", remaining, parseResult))
       /\ IF ~parseResult.ok
          THEN /\ pc' = "done" /\ result' = failure
               /\ UNCHANGED <<results, remaining, seen>>
          ELSE /\ results' = Append(results, parseResult.val)
               /\ remaining' = parseResult.rem
               /\ seen' = seen \cup {parseResult.rem}
               /\ pc' = IF parseResult.rem \in seen THEN "diverged" ELSE "term"
               /\ UNCHANGED result
    /\ UNCHANGED <<comb, parsers, input, acc, pending, idx, stack, ret>>
    /\ UNCHANGED gramVars

(***************************************************************************)
(* leftAssoc(term, operator)(s) and rightAssoc(term, operator)(s) as       *)
(* functions of s, for chainl1 / chainr1.                                  *)
(***************************************************************************)
RECURSIVE leftAssocLoop(_, _, _, _, _)
leftAssocLoop(term, operator, accumulator, rem, visited) ==
    LET opResult == Run(operator, rem) IN
    IF ~opResult.ok THEN success(accumulator, rem)
    ELSE LET nextResult == Run(term, opResult.rem) IN
         IF ~nextResult.ok THEN leftAssocStop(accumulator, rem, opResult)
         ELSE IF nextResult.rem \in visited THEN loops
         ELSE leftAssocLoop(term, operator,
                            leftAssocFold(opResult.val, accumulator, nextResult.val),
                            nextResult.rem, visited \cup {nextResult.rem})

leftAssoc(term, operator, s) ==
    LET firstResult == Run(term, s) IN
    IF ~firstResult.ok THEN failure
    ELSE leftAssocLoop(term, operator, firstResult.val, firstResult.rem, {firstResult.rem})

RECURSIVE rightAssocFrom(_, _, _, _)
rightAssocFrom(term, operator, s, visited) ==
    LET leftResult == Run(term, s) IN
    IF ~leftResult.ok THEN failure
    ELSE LET opResult == Run(operator, leftResult.rem) IN
         IF ~opResult.ok THEN success(leftResult.val, leftResult.rem)
         ELSE IF opResult.rem \in visited THEN loops
         ELSE LET rightResult == rightAssocFrom(term, operator, opResult.rem,
                                                visited \cup {opResult.rem})
              IN IF Loops(rightResult) THEN loops
                 ELSE IF ~rightResult.ok THEN success(leftResult.val, leftResult.rem)
                 ELSE success(rightAssocCombine(opResult.val, leftResult.val, rightResult.val),
                              rightResult.rem)

rightAssoc(term, operator, s) == rightAssocFrom(term, operator, s, {s})

\* chainl1 = leftAssoc, chainr1 = rightAssoc
chainl1(parser, operator, s) == leftAssoc(parser, operator, s)
chainr1(parser, operator, s) == rightAssoc(parser, operator, s)

(***************************************************************************)
(* chainl(parser, operator, defaultValue),                                 *)
(* chainr(parser, operator, defaultValue): `parsers` is the argument list. *)
(***************************************************************************)
chainDefaultFailing(defaultValue, s) == failure

\* result ? success(...result) : success(defaultValue, input)
chainDefault(defaultValue, s) == success(defaultValue, s)

ChainRun ==
    /\ comb \in {"chainl", "chainr"} /\ pc = "run"
    /\ LET r == IF comb = "chainl" THEN chainl1(parsers[1], parsers[2], input)
                ELSE chainr1(parsers[1], parsers[2], input)
       IN IF Loops(r)
          THEN pc' = "diverged" /\ UNCHANGED result
          ELSE /\ pc' = "done"
               /\ result' = IF r.ok THEN success(r.val, r.rem)
                            ELSE chainDefault(parsers[3], input)
    /\ UNCHANGED <<comb, parsers, input, remaining, results, acc, pending, idx, stack,
                   ret, calls, seen>>
    /\ UNCHANGED gramVars

(***************************************************************************)
(* reduce(parser, initial, folder): `parsers` is the argument list.        *)
(***************************************************************************)
RECURSIVE itemsReduce(_, _, _)
\* items.reduce(folder, initial)
itemsReduce(items, folder, initial) ==
    IF items = <<>> THEN initial
    ELSE itemsReduce(Tail(items), folder, Apply2(folder, initial, Head(items)))

ReduceRun ==
    /\ comb = "reduce" /\ pc = "run"
    /\ LET r == many(parsers[1], input) IN
       IF Loops(r)
       THEN pc' = "diverged" /\ UNCHANGED result
       ELSE /\ pc' = "done"
            /\ result' = IF ~r.ok THEN failure
                         ELSE success(itemsReduce(r.val, parsers[3], parsers[2]), r.rem)
    /\ UNCHANGED <<comb, parsers, input, remaining, results, acc, pending, idx, stack,
                   ret, calls, seen>>
    /\ UNCHANGED gramVars

(***************************************************************************)
(* many1(parser)                                                           *)
(***************************************************************************)
Many1First ==
    /\ comb = "many1" /\ pc = "run"
    /\ LET r == Run(parsers[1], input) IN
       /\ calls' = Append(calls, Call("item", input, r))
       /\ IF ~r.ok
          THEN /\ pc' = "done" /\ result' = failure
               /\ UNCHANGED <<results, remaining>>
          ELSE /\ results' = <<r.val>>
               /\ remaining' = r.rem
               /\ pc' = "rest"
               /\ UNCHANGED result
    /\ UNCHANGED <<comb, parsers, input, acc, pending, idx, stack, ret, seen>>
    /\ UNCHANGED gramVars

many1RemainingFabricated(firstRemaining, restResults) == firstRemaining \o restResults.rem

\* success([result[0], ...restResults[0]], restResults[1])
many1Remaining(firstRemaining, restResults) == restResults.rem

\* const restResults = many(parser)(result[1])
Many1Rest ==
    /\ comb = "many1" /\ pc = "rest"
    /\ LET restResults == many(parsers[1], remaining) IN
       IF Loops(restResults)
       THEN pc' = "diverged" /\ UNCHANGED <<result, remaining>>
       ELSE /\ pc' = "done"
            /\ result' = success(results \o restResults.val,
                                 many1Remaining(remaining, restResults))
            /\ remaining' = restResults.rem
    /\ UNCHANGED <<comb, parsers, input, results, acc, pending, idx, stack, ret, calls,
                   seen>>
    /\ UNCHANGED gramVars

(***************************************************************************)
(* count(parser, n), atMost(parser, n): `parsers` is <<parser, n>>, idx    *)
(* is i + 1.                                                              *)
(***************************************************************************)
CountStep ==
    /\ comb = "count" /\ pc = "run" /\ idx <= parsers[2]
    /\ LET r == Run(parsers[1], remaining) IN
       /\ calls' = Append(calls, Call("item", remaining, r))
       /\ IF ~r.ok
          THEN /\ pc' = "done" /\ result' = failure
               /\ UNCHANGED <<results, remaining, idx>>
          ELSE /\ results' = Append(results, r.val)
               /\ remaining' = r.rem
               /\ idx' = idx + 1
               /\ UNCHANGED <<pc, result>>
    /\ UNCHANGED <<comb, parsers, input, acc, pending, stack, ret, seen>>
    /\ UNCHANGED gramVars

CountReturn ==
    /\ comb = "count" /\ pc = "run" /\ idx > parsers[2]
    /\ pc' = "done" /\ result' = success(results, remaining)
    /\ UNCHANGED <<comb, parsers, input, remaining, results, acc, pending, idx, stack,
                   ret, calls, seen>>
    /\ UNCHANGED gramVars

AtMostStep ==
    /\ comb = "atMost" /\ pc = "run" /\ idx <= parsers[2]
    /\ LET r == Run(parsers[1], remaining) IN
       /\ calls' = Append(calls, Call("item", remaining, r))
       /\ IF ~r.ok
          THEN /\ pc' = "done" /\ result' = success(results, remaining)
               /\ UNCHANGED <<results, remaining, idx>>
          ELSE /\ results' = Append(results, r.val)
               /\ remaining' = r.rem
               /\ idx' = idx + 1
               /\ UNCHANGED <<pc, result>>
    /\ UNCHANGED <<comb, parsers, input, acc, pending, stack, ret, seen>>
    /\ UNCHANGED gramVars

AtMostReturn ==
    /\ comb = "atMost" /\ pc = "run" /\ idx > parsers[2]
    /\ pc' = "done" /\ result' = success(results, remaining)
    /\ UNCHANGED <<comb, parsers, input, remaining, results, acc, pending, idx, stack,
                   ret, calls, seen>>
    /\ UNCHANGED gramVars

(***************************************************************************)
(* map(parser, ...transforms): `parsers` is the argument list,             *)
(* <<parser, transform1, ..., transformk>>.                                *)
(***************************************************************************)
mapFinalValueRightToLeft(transforms, value) == reduceRight(transforms, value)

\* finalValue = transforms.reduce((acc, fn) => fn(acc), result[0])
mapFinalValue(transforms, value) == reduce(transforms, value)

MapRun ==
    /\ comb = "map" /\ pc = "run"
    /\ LET r == Run(parsers[1], input) IN
       /\ calls' = Append(calls, Call("parser", input, r))
       /\ result' = IF ~r.ok THEN failure
                    ELSE success(mapFinalValue(Tail(parsers), r.val), r.rem)
    /\ pc' = "done"
    /\ UNCHANGED <<comb, parsers, input, remaining, results, acc, pending, idx, stack,
                   ret, seen>>
    /\ UNCHANGED gramVars

(***************************************************************************)
(* lookahead(parser), peek(parser), notFollowedBy(parser),                 *)
(* followedBy(parser)                                                      *)
(***************************************************************************)
lookaheadRemainingOfParser(s, r) == r.rem

\* success(result[0], input), success(undefined, input)
lookaheadRemaining(s, r) == s

\* peek(parser) = lookahead(parser)
LookaheadRun ==
    /\ comb \in {"lookahead", "peek"} /\ pc = "run"
    /\ LET r == Run(parsers[1], input) IN
       /\ calls' = Append(calls, Call("parser", input, r))
       /\ result' = IF r.ok THEN success(r.val, lookaheadRemaining(input, r)) ELSE failure
    /\ pc' = "done"
    /\ UNCHANGED <<comb, parsers, input, remaining, results, acc, pending, idx, stack,
                   ret, seen>>
    /\ UNCHANGED gramVars

NotFollowedByRun ==
    /\ comb = "notFollowedBy" /\ pc = "run"
    /\ LET r == Run(parsers[1], input) IN
       /\ calls' = Append(calls, Call("parser", input, r))
       /\ result' = IF r.ok THEN failure ELSE success("undefined", input)
    /\ pc' = "done"
    /\ UNCHANGED <<comb, parsers, input, remaining, results, acc, pending, idx, stack,
                   ret, seen>>
    /\ UNCHANGED gramVars

FollowedByRun ==
    /\ comb = "followedBy" /\ pc = "run"
    /\ LET r == Run(parsers[1], input) IN
       /\ calls' = Append(calls, Call("parser", input, r))
       /\ result' = IF r.ok THEN success("undefined", lookaheadRemaining(input, r))
                    ELSE failure
    /\ pc' = "done"
    /\ UNCHANGED <<comb, parsers, input, remaining, results, acc, pending, idx, stack,
                   ret, seen>>
    /\ UNCHANGED gramVars

(***************************************************************************)
(* char(expected) and regex(pattern).  The repository has them twice: in   *)
(* core.ts, which primitives.ts, text.ts and lexical.ts import, and in      *)
(* terminals.ts, which combinators.ts imports.  parsers = <<module, arg>>:  *)
(* arg is the expected string of char, or the pattern of regex, a          *)
(* character class with its global flag.                                   *)
(***************************************************************************)
Modules == {"core", "terminals"}
Expecteds == UNION {[1..n -> {"1", "-"}] : n \in 0..MaxExpected}
Patterns == [class : {"digit", "dash"}, global : BOOLEAN]

InClass(c, class) == IF class = "digit" THEN c \in {"1", "2"} ELSE c = "-"

\* if (expected.length > 1) throw, in terminals.ts only
charThrows(module, expected) == module = "terminals" /\ Len(expected) > 1

\* if (pattern.global) throw, in terminals.ts only
regexThrows(module, pattern) == module = "terminals" /\ pattern.global

\* input.length > 0 && input[0] === expected
char(expected, s) ==
    IF s # <<>> /\ <<s[1]>> = expected THEN success(Code(s[1]), Tail(s)) ELSE failure

\* input.match(pattern): null without a match; with the global flag the
\* array of all matches, which has no index
match(s, pattern) ==
    LET hits == {i \in 1..Len(s) : InClass(s[i], pattern.class)} IN
    IF hits = {} THEN [found |-> FALSE]
    ELSE IF pattern.global THEN [found |-> TRUE, indexed |-> FALSE]
    ELSE [found |-> TRUE, indexed |-> TRUE,
          index |-> (CHOOSE i \in hits : \A j \in hits : i <= j) - 1]

\* match && match.index === 0
regex(pattern, s) ==
    LET m == match(s, pattern) IN
    IF m.found /\ m.indexed /\ m.index = 0 THEN success(Code(s[1]), Tail(s)) ELSE failure

CharConstruct ==
    /\ comb = "char" /\ pc = "construct"
    /\ pc' = IF charThrows(parsers[1], parsers[2]) THEN "threw" ELSE "built"
    /\ UNCHANGED <<comb, parsers, input, remaining, results, acc, pending, idx, stack,
                   ret, result, calls, seen>>
    /\ UNCHANGED gramVars

RegexConstruct ==
    /\ comb = "regex" /\ pc = "construct"
    /\ pc' = IF regexThrows(parsers[1], parsers[2]) THEN "threw" ELSE "built"
    /\ UNCHANGED <<comb, parsers, input, remaining, results, acc, pending, idx, stack,
                   ret, result, calls, seen>>
    /\ UNCHANGED gramVars

CharRun ==
    /\ comb = "char" /\ pc = "built"
    /\ result' = char(parsers[2], input)
    /\ pc' = "done"
    /\ UNCHANGED <<comb, parsers, input, remaining, results, acc, pending, idx, stack,
                   ret, calls, seen>>
    /\ UNCHANGED gramVars

RegexRun ==
    /\ comb = "regex" /\ pc = "built"
    /\ result' = regex(parsers[2], input)
    /\ pc' = "done"
    /\ UNCHANGED <<comb, parsers, input, remaining, results, acc, pending, idx, stack,
                   ret, calls, seen>>
    /\ UNCHANGED gramVars

InitComb(c, ps, s, start) ==
    /\ comb = c /\ parsers = ps /\ input = s /\ pc = start
    /\ remaining = s /\ results = <<>> /\ acc = 0 /\ pending = failure
    /\ idx = 1 /\ stack = <<>> /\ ret = failure /\ result = failure
    /\ calls = <<>> /\ seen = {s}

(***************************************************************************)
(* grammar(definitions).  A definition thunk is [ref, via]: the rule it    *)
(* builds is  digit  when ref = "none" and                                 *)
(*   choice(map(sequence(char('-'), <ref>), ...), digit)                   *)
(* otherwise, where the thunk takes the parser of rule ref from the rule   *)
(* map it is given as its argument (via = "argument", as in                *)
(* expression: ({ foo, bar }) => sequence(foo, bar)) or from the object    *)
(* grammar returned (via = "closure").                                     *)
(***************************************************************************)
Rules == {"a", "b"}

Definitions == {[ref |-> "none", via |-> "closure"]}
                 \cup [ref : Rules, via : {"closure", "argument"}]

NoParser == [kind |-> "none", ref |-> "none"]

\* the parser a definition thunk returns
Thunk(d) == IF d.ref = "none" THEN [kind |-> "digit", ref |-> "none"]
            ELSE [kind |-> "nest", ref |-> d.ref]

\* definitions[typedKey](): the thunk is called without an argument
thunkArgument == "undefined"

\* reading a property of undefined raises a TypeError
ThunkThrows(d) == d.via = "argument" /\ thunkArgument = "undefined"

GrammarInputs == {<<"1">>, <<"-", "1">>, <<"-", "-", "2">>, <<"-">>}

\* an invocation of a rule's lazy parser; body is the parser thunk() gave it
Frame(r, s) == [rule |-> r, inp |-> s, body |-> NoParser]
TopFrame == gstack[Len(gstack)]

WithBody(stk, parser) == [stk EXCEPT ![Len(stk)].body = parser]

cacheReadOfFirstRule(key) == cache["a"]

\* cache[typedKey]
cacheRead(key) == cache[key]

UNCHANGED_comb == UNCHANGED combVars

lazyEager(key, called) == [called EXCEPT ![key] = @ + 1]

\* lazy(thunk) = create((input) => thunk()(input)): creating the parser calls nothing
lazy(key, called) == called

\* for (const key in definitions) parsers[key] = lazy(...)
GrammarDefine ==
    /\ gpc = "construct"
    /\ \E key \in Rules \ built :
         /\ built' = built \cup {key}
         /\ thunkCalls' = lazy(key, thunkCalls)
    /\ UNCHANGED <<definitions, cache, cacheWrites, gstack, gret, gpc, glog, invoked>>
    /\ UNCHANGED_comb

\* return parsers
GrammarConstructed ==
    /\ gpc = "construct" /\ built = Rules
    /\ gpc' = "idle"
    /\ UNCHANGED <<definitions, cache, thunkCalls, cacheWrites, gstack, gret, glog,
                   built, invoked>>
    /\ UNCHANGED_comb

\* a rule parser of the grammar instance is called on an input
GrammarInvoke ==
    /\ gpc = "idle" /\ Len(glog) < MaxInvocations
    /\ \E r \in built, s \in GrammarInputs :
         /\ gstack' = <<Frame(r, s)>>
         /\ invoked' = [invoked EXCEPT ![r] = @ + 1]
         /\ gpc' = "lazy"
    /\ UNCHANGED <<definitions, cache, thunkCalls, cacheWrites, gret, glog, built>>
    /\ UNCHANGED_comb

\* cache[typedKey] ??= ... with the cell filled: the cached parser is used
GrammarCached ==
    /\ gpc = "lazy" /\ cacheRead(TopFrame.rule) # NoParser
    /\ gstack' = WithBody(gstack, cacheRead(TopFrame.rule))
    /\ gpc' = "parse"
    /\ UNCHANGED <<definitions, cache, thunkCalls, cacheWrites, gret, glog,
                   built, invoked>>
    /\ UNCHANGED_comb

\* cache[typedKey] ??= definitions[typedKey]() with the cell empty
GrammarRealize ==
    /\ gpc = "lazy" /\ cacheRead(TopFrame.rule) = NoParser
    /\ LET r == TopFrame.rule IN
       /\ ~ThunkThrows(definitions[r])
       /\ thunkCalls' = [thunkCalls EXCEPT ![r] = @ + 1]
       /\ cache' = [cache EXCEPT ![r] = Thunk(definitions[r])]
       /\ cacheWrites' = [cacheWrites EXCEPT ![r] = @ + 1]
       /\ gstack' = WithBody(gstack, Thunk(definitions[r]))
    /\ gpc' = "parse"
    /\ UNCHANGED <<definitions, gret, glog, built, invoked>>
    /\ UNCHANGED_comb

\* the thunk raises: nothing is assigned and the exception leaves every
\* invocation in progress
GrammarThunkThrows ==
    /\ gpc = "lazy" /\ cacheRead(TopFrame.rule) = NoParser
    /\ LET r == TopFrame.rule IN
       /\ ThunkThrows(definitions[r])
       /\ thunkCalls' = [thunkCalls EXCEPT ![r] = @ + 1]
    /\ glog' = Append(glog, [rule |-> gstack[1].rule, inp |-> gstack[1].inp,
                             threw |-> TRUE, res |-> failure])
    /\ gstack' = <<>>
    /\ gpc' = "idle"
    /\ UNCHANGED <<definitions, cache, cacheWrites, gret, built, invoked>>
    /\ UNCHANGED_comb

\* thunk()(input): the rule's parser runs on the invocation's input
GrammarParse ==
    /\ gpc = "parse"
    /\ LET body == TopFrame.body
           s == TopFrame.inp
           o == Run("dash", s)
       IN IF body.kind = "nest" /\ o.ok
          THEN /\ gstack' = Append(gstack, Frame(body.ref, o.rem))
               /\ invoked' = [invoked EXCEPT ![body.ref] = @ + 1]
               /\ gpc' = "lazy"
               /\ UNCHANGED gret
          ELSE /\ gret' = Run("digit", s)
               /\ gpc' = "return"
               /\ UNCHANGED <<gstack, invoked>>
    /\ UNCHANGED <<definitions, cache, thunkCalls, cacheWrites, glog, built>>
    /\ UNCHANGED_comb

\* a nested rule parser returns into the sequence / choice that called it
GrammarReturnNested ==
    /\ gpc = "return" /\ Len(gstack) > 1
    /\ gret' = IF gret.ok THEN success(gret.val + 10, gret.rem)
               ELSE Run("digit", gstack[Len(gstack) - 1].inp)
    /\ gstack' = SubSeq(gstack, 1, Len(gstack) - 1)
    /\ UNCHANGED <<definitions, cache, thunkCalls, cacheWrites, gpc, glog, built, invoked>>
    /\ UNCHANGED_comb

GrammarReturn ==
    /\ gpc = "return" /\ Len(gstack) = 1
    /\ glog' = Append(glog, [rule |-> gstack[1].rule, inp |-> gstack[1].inp,
                             threw |-> FALSE, res |-> gret])
    /\ gstack' = <<>>
    /\ gpc' = "idle"
    /\ UNCHANGED <<definitions, cache, thunkCalls, cacheWrites, gret, built, invoked>>
    /\ UNCHANGED_comb

\* the state grammar(definitions) is entered in: parsers = {}, cache = {}
InitGrammar(defs, start) ==
    /\ definitions = defs
    /\ cache = [r \in Rules |-> NoParser]
    /\ thunkCalls = [r \in Rules |-> 0]
    /\ cacheWrites = [r \in Rules |-> 0]
    /\ gstack = <<>> /\ gret = failure /\ gpc = start /\ glog = <<>>
    /\ built = {} /\ invoked = [r \in Rules |-> 0]

\* no grammar instance
InitGrammarIdle == InitGrammar([r \in Rules |-> [ref |-> "none", via |-> "closure"]], "idle")

Init ==
    /\ InitGrammarIdle
    /\ \E s \in Str :
         \/ \E p \in ValueParsers : InitComb("many", <<p>>, s, "loop")
         \/ \E p \in ValueParsers, q \in SepParsers :
               \/ InitComb("sepBy", <<p, q>>, s, "first")
               \/ InitComb("interleaved", <<p, q>>, s, "first")
               \/ InitComb("sepEndBy", <<p, q>>, s, "items")
               \/ InitComb("sepEndBy1", <<p, q>>, s, "items")
               \/ InitComb("endBy", <<p, q>>, s, "loop")
               \/ InitComb("until", <<p, q>>, s, "term")
         \/ \E ps \in ParserLists : InitComb("choice", ps, s, "try")
         \/ \E ps \in ParserLists : InitComb("sequence", ps, s, "run")

Next ==
    \/ ManyStep
    \/ SepByFirst \/ SepBySeparator \/ SepByItem
    \/ InterleavedFirst \/ InterleavedSeparator \/ InterleavedItem
    \/ SepEndByItems \/ SepEndByTrailing
    \/ EndByStep
    \/ UntilTerminator \/ UntilParser
    \/ ChoiceTry \/ ChoiceFail
    \/ SequenceRun \/ SequenceReturn

Spec == Init /\ [][Next]_vars

(***************************************************************************)
(* The operator-precedence combinators, on inputs long enough for a chain  *)
(* of two binary operators.                                                *)
(***************************************************************************)
OpInit ==
    /\ InitGrammarIdle
    /\ \E s \in OpStr :
         \/ \E p \in TermParsers, q \in BinOpParsers :
               \/ InitComb("leftAssoc", <<p, q>>, s, "first")
               \/ InitComb("rightAssoc", <<p, q>>, s, "term")
               \/ \E d \in DefaultValues, c \in {"chainl", "chainr"} :
                     InitComb(c, <<p, q, d>>, s, "run")
         \/ \E p \in TermParsers, q \in UnOpParsers :
               \/ InitComb("prefix", <<q, p>>, s, "op")
               \/ InitComb("postfix", <<p, q>>, s, "atom")

OpNext ==
    \/ LeftAssocFirst \/ LeftAssocOperator \/ LeftAssocTerm
    \/ RightAssocTerm \/ RightAssocOperator \/ RightAssocUnwind \/ RightAssocReturn
    \/ PrefixOperator \/ PrefixAtom
    \/ PostfixAtom \/ PostfixOperator
    \/ ChainRun

OpSpec == OpInit /\ [][OpNext]_vars

(***************************************************************************)
(* The combinators around a single parser, on inputs with white space.     *)
(***************************************************************************)
WrapInit ==
    /\ InitGrammarIdle
    /\ \E s \in WsStr, p \in ValueParsers :
         \/ \E c \in {"optionalMaybe", "many1", "lookahead", "peek",
                       "notFollowedBy", "followedBy"} : InitComb(c, <<p>>, s, "run")
         \/ \E q \in {p, "maybe"} : InitComb("parse", <<q>>, s, "run")
         \/ \E d \in DefaultValues : InitComb("optional", <<p, d>>, s, "run")
         \/ \E n \in 0..MaxCount, c \in {"count", "atMost"} : InitComb(c, <<p, n>>, s, "run")
         \/ \E ts \in TransformLists : InitComb("map", <<p>> \o ts, s, "run")
         \/ \E d \in DefaultValues, f \in {"add", "sub"} :
               InitComb("reduce", <<p, d, f>>, s, "run")

WrapNext ==
    \/ ParseRun
    \/ OptionalRun \/ OptionalMaybeRun
    \/ Many1First \/ Many1Rest
    \/ CountStep \/ CountReturn \/ AtMostStep \/ AtMostReturn
    \/ MapRun
    \/ ReduceRun
    \/ LookaheadRun \/ NotFollowedByRun \/ FollowedByRun

WrapSpec == WrapInit /\ [][WrapNext]_vars

(***************************************************************************)
(* The primitives char and regex: construction, then one run.              *)
(***************************************************************************)
PrimInit ==
    /\ InitGrammarIdle
    /\ \E s \in Str, m \in Modules :
         \/ \E e \in Expecteds : InitComb("char", <<m, e>>, s, "construct")
         \/ \E pt \in Patterns : InitComb("regex", <<m, pt>>, s, "construct")

PrimNext == CharConstruct \/ RegexConstruct \/ CharRun \/ RegexRun

PrimSpec == PrimInit /\ [][PrimNext]_vars

(***************************************************************************)
(* Every combinator of the model, each on its own inputs.                  *)
(***************************************************************************)
CombInit == Init \/ OpInit \/ WrapInit

CombNext == Next \/ OpNext \/ WrapNext

CombSpec == CombInit /\ [][CombNext]_vars

(***************************************************************************)
(* One grammar instance and the invocations of its rule parsers.           *)
(***************************************************************************)
GrammarInit ==
    /\ \E defs \in [Rules -> Definitions] : InitGrammar(defs, "construct")
    /\ InitComb("grammar", <<>>, <<>>, "done")

GrammarNext ==
    \/ GrammarDefine \/ GrammarConstructed
    \/ GrammarInvoke
    \/ GrammarCached \/ GrammarRealize \/ GrammarThunkThrows
    \/ GrammarParse
    \/ GrammarReturnNested \/ GrammarReturn

GrammarSpec == GrammarInit /\ [][GrammarNext]_vars
(***************************************************************************)
(* Reading the history of invocations.                                     *)
(***************************************************************************)
SameResult(r1, r2) ==
    /\ r1.ok = r2.ok
    /\ r1.ok => (r1.val = r2.val /\ r1.rem = r2.rem)

RECURSIVE OkVals(_, _)
\* the values of the successful invocations of role `who`, in order
OkVals(cs, who) ==
    IF cs = <<>> THEN <<>>
    ELSE IF Head(cs).who = who /\ Head(cs).res.ok
         THEN <<Head(cs).res.val>> \o OkVals(Tail(cs), who)
         ELSE OkVals(Tail(cs), who)

LastCall == calls[Len(calls)]
PrevCall == calls[Len(calls) - 1]

ZeroConsuming(p) == \A s \in Str : Run(p, s).ok /\ Run(p, s).rem = s

(***************************************************************************)
(* C1 as stated: many(p) terminates on every input for every p whose       *)
(* invocations terminate, and for a zero-consuming, always succeeding p it *)
(* returns the empty list and the input unchanged.  p is a pure function,  *)
(* so the loop runs forever exactly when it comes back to an input at      *)
(* which it already was: pc = "diverged".                                  *)
(***************************************************************************)
ManyZeroConsuming ==
    (comb = "many" /\ pc = "done" /\ ZeroConsuming(parsers[1]))
        => (result.ok /\ result.val = <<>> /\ result.rem = input)

IsSuffix(r, s) == Len(r) <= Len(s) /\ r = SubSeq(s, Len(s) - Len(r) + 1, Len(s))

SuffixParser(p) == \A s \in Str : Run(p, s).ok => IsSuffix(Run(p, s).rem, s)

SepByDangling ==
    /\ comb = "sepBy" /\ pc = "done" /\ Len(calls) >= 2
    /\ PrevCall.who = "sep" /\ PrevCall.res.ok
    /\ LastCall.who = "item" /\ ~LastCall.res.ok

C2_SepByDanglingSeparator ==
    SepByDangling =>
        /\ result.ok
        /\ result.val = OkVals(calls, "item")
        /\ result.rem = PrevCall.inp

C2_Witness ==
    /\ SepByDangling
    /\ Len(result.val) >= 2
    /\ PrevCall.res.rem # PrevCall.inp

(***************************************************************************)
(* C3: choice invokes the alternatives in listed order, each on the        *)
(* original input, stops at the first success and returns its result;      *)
(* it fails iff all alternatives fail.                                     *)
(***************************************************************************)
FirstOk(ps, s) == CHOOSE k \in 1..Len(ps) :
                     /\ Run(ps[k], s).ok
                     /\ \A j \in 1..(k - 1) : ~Run(ps[j], s).ok

C3_ChoiceOrderedFirstSuccess ==
    comb = "choice" =>
        /\ \A j \in 1..Len(calls) :
              /\ calls[j].who = j
              /\ calls[j].inp = input
              /\ SameResult(calls[j].res, Run(parsers[j], input))
              /\ (j < Len(calls) => ~calls[j].res.ok)
        /\ pc = "done" =>
              /\ result.ok <=> (\E j \in 1..Len(parsers) : Run(parsers[j], input).ok)
              /\ result.ok =>
                    /\ Len(calls) = FirstOk(parsers, input)
                    /\ SameResult(result, Run(parsers[FirstOk(parsers, input)], input))
              /\ ~result.ok => Len(calls) = Len(parsers)

C3_Witness ==
    /\ comb = "choice" /\ pc = "done" /\ result.ok
    /\ Len(parsers) = 2 /\ Len(calls) = 2
    /\ result.rem # input

(***************************************************************************)
(* C4: sequence invokes the parsers in listed order, each on the remaining *)
(* input of the one before; the first failure ends the run with a bare     *)
(* failure; on success the values come in order with the last remaining    *)
(* input.                                                                  *)
(***************************************************************************)
C4_SequenceThreading ==
    comb = "sequence" =>
        /\ \A j \in 1..Len(calls) :
              /\ calls[j].who = j
              /\ calls[j].inp = (IF j = 1 THEN input ELSE calls[j - 1].res.rem)
              /\ SameResult(calls[j].res, Run(parsers[j], calls[j].inp))
              /\ (j < Len(calls) => calls[j].res.ok)
        /\ pc = "done" =>
              IF \E j \in 1..Len(calls) : ~calls[j].res.ok
              THEN DOMAIN result = {"ok"} /\ ~result.ok
              ELSE /\ Len(calls) = Len(parsers)
                   /\ result.ok
                   /\ result.val = [j \in 1..Len(calls) |-> calls[j].res.val]
                   /\ result.rem = (IF calls = <<>> THEN input ELSE LastCall.res.rem)

C4_Witness ==
    /\ comb = "sequence" /\ pc = "done" /\ result.ok
    /\ Len(result.val) = 2 /\ Len(result.rem) + 2 = Len(input)
(***************************************************************************)
(* The operator chain a run of leftAssoc / rightAssoc matched: the terms   *)
(* that succeeded, and the operators that were followed by a successful    *)
(* term.                                                                   *)
(***************************************************************************)
ChainTerms(cs) == OkVals(cs, "term")

RECURSIVE ChainOps(_)
ChainOps(cs) ==
    IF Len(cs) < 2 THEN <<>>
    ELSE IF cs[1].who = "op" /\ cs[1].res.ok /\ cs[2].res.ok
         THEN <<cs[1].res.val>> \o ChainOps(Tail(cs))
         ELSE ChainOps(Tail(cs))

Front(s) == SubSeq(s, 1, Len(s) - 1)
Last(s) == s[Len(s)]

RECURSIVE LeftFold(_, _)
\* opn(...op2(op1(t0, t1), t2)..., tn)
LeftFold(ts, fs) ==
    IF fs = <<>> THEN ts[1]
    ELSE Apply2(Last(fs), LeftFold(Front(ts), Front(fs)), Last(ts))

RECURSIVE RightFold(_, _)
\* op1(t0, op2(t1, ... opn(t(n-1), tn)))
RightFold(ts, fs) ==
    IF fs = <<>> THEN ts[1]
    ELSE Apply2(Head(fs), Head(ts), RightFold(Tail(ts), Tail(fs)))

(***************************************************************************)
(* The chain t0 op1 t1 ... opn tn an input reads, for term = digit and     *)
(* operator = binop: its longest prefix of digits alternating with         *)
(* operator characters that ends in a digit.                               *)
(***************************************************************************)
IsChain(s, n) ==
    /\ n = 0 \/ n % 2 = 1
    /\ \A i \in 1..n : IF i % 2 = 1 THEN s[i] \in {"1", "2"} ELSE s[i] \in {"-", "+"}

ChainEnd(s) == CHOOSE n \in 0..Len(s) :
                  /\ IsChain(s, n)
                  /\ \A m \in 0..Len(s) : IsChain(s, m) => m <= n

InputTerms(s) == [k \in 1..((ChainEnd(s) + 1) \div 2) |-> Code(s[2 * k - 1])]
InputOps(s) == [k \in 1..((ChainEnd(s) - 1) \div 2) |->
                   IF s[2 * k] = "-" THEN "sub" ELSE "add"]

AssocDone(c) == comb = c /\ pc = "done" /\ result.ok

(***************************************************************************)
(* C5: leftAssoc returns the left fold of the chain it read:               *)
(* opn(...op2(op1(t0, t1), t2)..., tn).                                    *)
(***************************************************************************)
C5_LeftAssocLeftFold ==
    AssocDone("leftAssoc") =>
        /\ result.val = LeftFold(ChainTerms(calls), ChainOps(calls))
        /\ parsers = <<"digit", "binop">> =>
              result.val = LeftFold(InputTerms(input), InputOps(input))

C5_Witness ==
    /\ AssocDone("leftAssoc") /\ parsers = <<"digit", "binop">>
    /\ Len(InputOps(input)) = 2
    /\ result.val = LeftFold(InputTerms(input), InputOps(input))
    /\ result.val # RightFold(InputTerms(input), InputOps(input))

(***************************************************************************)
(* C6: rightAssoc returns the right fold of the chain it read:             *)
(* op1(t0, op2(t1, ... opn(t(n-1), tn))).                                  *)
(***************************************************************************)
C6_RightAssocRightFold ==
    AssocDone("rightAssoc") =>
        /\ result.val = RightFold(ChainTerms(calls), ChainOps(calls))
        /\ parsers = <<"digit", "binop">> =>
              result.val = RightFold(InputTerms(input), InputOps(input))

C6_Witness ==
    /\ AssocDone("rightAssoc") /\ parsers = <<"digit", "binop">>
    /\ Len(InputOps(input)) = 2
    /\ result.val = RightFold(InputTerms(input), InputOps(input))
    /\ result.val # LeftFold(InputTerms(input), InputOps(input))

(***************************************************************************)
(* C7: once the first term succeeded, leftAssoc and rightAssoc do not      *)
(* return failure; when an operator matched and the term after it failed,  *)
(* the result is the value of the chain so far and the remaining input is  *)
(* the input that operator was tried on.                                   *)
(***************************************************************************)
DanglingOperator ==
    /\ Len(calls) >= 2
    /\ PrevCall.who = "op" /\ PrevCall.res.ok
    /\ LastCall.who = "term" /\ ~LastCall.res.ok

C7_AssocAbsorbsDanglingOperator ==
    (comb \in {"leftAssoc", "rightAssoc"} /\ pc = "done" /\ calls[1].res.ok) =>
        /\ result.ok
        /\ DanglingOperator =>
              /\ result.rem = PrevCall.inp
              /\ result.val = IF comb = "leftAssoc"
                              THEN LeftFold(ChainTerms(calls), ChainOps(calls))
                              ELSE RightFold(ChainTerms(calls), ChainOps(calls))

C7_Witness ==
    /\ comb \in {"leftAssoc", "rightAssoc"} /\ pc = "done"
    /\ DanglingOperator
    /\ Len(ChainOps(calls)) >= 1
    /\ PrevCall.res.rem # PrevCall.inp
    /\ result.rem = PrevCall.inp

(***************************************************************************)
(* C8: prefix collects operators f1..fk until the operator parser fails,   *)
(* parses the atom a and returns f1(f2(...fk(a)...)).                      *)
(***************************************************************************)
RECURSIVE Nested(_, _)
Nested(fs, a) == IF fs = <<>> THEN a ELSE Apply1(Head(fs), Nested(Tail(fs), a))

UnFn(c) == IF c = "-" THEN "neg" ELSE "abs"

\* the number of leading operator characters of s
Leading(s) == CHOOSE k \in 0..Len(s) :
                 /\ \A i \in 1..k : s[i] \in {"-", "+"}
                 /\ (k < Len(s) => s[k + 1] \notin {"-", "+"})

C8_PrefixRightToLeft ==
    (comb = "prefix" /\ pc = "done" /\ result.ok) =>
        /\ result.val = Nested(OkVals(calls, "op"), LastCall.res.val)
        /\ ~PrevCall.res.ok
        /\ parsers = <<"unop", "digit">> =>
              result.val = Nested([i \in 1..Leading(input) |-> UnFn(input[i])],
                                  Code(input[Leading(input) + 1]))

C8_Witness ==
    /\ comb = "prefix" /\ pc = "done" /\ result.ok
    /\ parsers = <<"unop", "digit">>
    /\ Len(results) = 2
    /\ result.val # reduce(results, LastCall.res.val)

(***************************************************************************)
(* C9: postfix parses the atom a and applies the operators g1..gk in the   *)
(* order they are matched: gk(...g2(g1(a))...).                            *)
(***************************************************************************)
RECURSIVE Piped(_, _)
Piped(gs, a) == IF gs = <<>> THEN a ELSE Apply1(Last(gs), Piped(Front(gs), a))

C9_PostfixLeftToRight ==
    (comb = "postfix" /\ pc = "done" /\ result.ok) =>
        /\ result.val = Piped(OkVals(calls, "op"), calls[1].res.val)
        /\ parsers = <<"digit", "unop">> =>
              result.val = Piped([i \in 1..Leading(Tail(input)) |-> UnFn(input[i + 1])],
                                 Code(input[1]))

C9_Witness ==
    /\ comb = "postfix" /\ pc = "done" /\ result.ok
    /\ parsers = <<"digit", "unop">>
    /\ Len(OkVals(calls, "op")) = 2
    /\ result.val # Nested(OkVals(calls, "op"), calls[1].res.val)
(***************************************************************************)
(* C10: over every sequence of invocations of a grammar instance's rule    *)
(* parsers, each rule's definition thunk is called at most once, its      *)
(* cache cell is assigned at most once, and a filled cell holds the parser *)
(* that call returned.                                                     *)
(***************************************************************************)
C10_ThunkCalledAtMostOnce ==
    \A r \in Rules :
        /\ thunkCalls[r] <= 1
        /\ cacheWrites[r] <= 1
        /\ cache[r] # NoParser => cache[r] = Thunk(definitions[r])

(***************************************************************************)
(* C11: grammar(definitions) calls no definition thunk while it builds the *)
(* rule parsers; a rule's thunk is called only in an invocation of that    *)
(* rule's parser, and the first invocation is the one that calls it first. *)
(***************************************************************************)
C11_ThunksCalledOnlyOnInvocation ==
    /\ gpc = "construct" => \A r \in Rules : thunkCalls[r] = 0 /\ invoked[r] = 0
    /\ \A r \in Rules :
          /\ thunkCalls[r] <= invoked[r]
          /\ (invoked[r] > 0 /\ ~(gpc = "lazy" /\ TopFrame.rule = r)) => thunkCalls[r] > 0

C11_Witness ==
    /\ built = Rules /\ gpc = "idle"
    /\ definitions["a"] = [ref |-> "a", via |-> "closure"]
    /\ definitions["b"] = [ref |-> "a", via |-> "closure"]
    /\ invoked["a"] >= 2 /\ thunkCalls["a"] = 1 /\ thunkCalls["b"] = 0
    /\ Len(glog) = 1 /\ glog[1].res.ok

(***************************************************************************)
(* C12: every call of a definition thunk is given the map of the grammar's *)
(* rule parsers, so that no invocation of a rule whose definition reads    *)
(* its siblings from that argument raises.                                 *)
(***************************************************************************)
C12_ThunkGivenSiblingParsers ==
    /\ (\E r \in Rules : thunkCalls[r] > 0) => thunkArgument = "parsers"
    /\ \A i \in 1..Len(glog) : ~glog[i].threw

(***************************************************************************)
(* C13: parse returns the parser's value exactly when the parser succeeds  *)
(* and every character of the remaining input is white space; otherwise    *)
(* it returns null.                                                        *)
(***************************************************************************)
OnlyWhiteSpace(s) == \A i \in 1..Len(s) : IsWhiteSpace(s[i])

C13_ParseValueIffOnlyWhiteSpaceRemains ==
    (comb = "parse" /\ pc = "done") =>
        LET r == Run(parsers[1], input) IN
        IF r.ok /\ OnlyWhiteSpace(r.rem)
        THEN IF IsNullValue(r) THEN ~result.ok ELSE result.ok /\ result.val = r.val
        ELSE ~result.ok /\ DOMAIN result = {"ok"}

C13_Witness ==
    /\ comb = "parse" /\ pc = "done" /\ result.ok
    /\ calls[1].res.rem # <<>> /\ calls[1].res.rem # input

(***************************************************************************)
(* C14: sepBy and interleaved terminate on every input, whatever item and  *)
(* separator are: their loop never comes back to an input it already was   *)
(* at.                                                                     *)
(***************************************************************************)
C14_SeparatorLoopsTerminate ==
    comb \in {"sepBy", "interleaved"} => pc # "diverged"

(***************************************************************************)
(* C15: the depth of nested rightAssoc invocations is at most the number   *)
(* of matched operators plus one and at most the input length plus one,    *)
(* and the recursion does not go on forever.                               *)
(***************************************************************************)
C15_RightAssocDepthBounded ==
    comb = "rightAssoc" =>
        /\ pc # "diverged"
        /\ Len(stack) + 1 <= Len(OkVals(calls, "op")) + 1
        /\ Len(stack) + 1 <= Len(input) + 1

(***************************************************************************)
(* C16: when every sub-parser returns a suffix of its input, a combinator  *)
(* invokes its sub-parsers on suffixes of its own input only, and the      *)
(* remaining input of its successful result is a suffix of its input.      *)
(***************************************************************************)
SubParsers ==
    IF comb \in {"optional", "count", "atMost", "map", "reduce"} THEN {parsers[1]}
    ELSE IF comb \in {"chainl", "chainr"} THEN {parsers[1], parsers[2]}
    ELSE {parsers[i] : i \in 1..Len(parsers)}

AllParsers == ValueParsers \cup AlgParsers \cup SepParsers \cup TermParsers
                  \cup BinOpParsers \cup UnOpParsers

\* the parsers of the model that return a suffix of their input on success
SuffixParsers == {p \in AllParsers : SuffixParser(p)}

C16_RemainingIsSuffix ==
    (comb # "parse" /\ SubParsers \subseteq SuffixParsers) =>
        /\ \A j \in 1..Len(calls) : IsSuffix(calls[j].inp, input)
        /\ (pc = "done" /\ result.ok) => IsSuffix(result.rem, input)

C16_Witness ==
    /\ comb = "many1" /\ pc = "done" /\ result.ok
    /\ parsers[1] \in SuffixParsers
    /\ Len(result.val) = 2
    /\ result.rem # <<>> /\ IsSuffix(result.rem, input)

(***************************************************************************)
(* C17: optional and optionalMaybe always succeed: with the parser's value *)
(* and remaining input when it succeeds, with the default value (null for  *)
(* optionalMaybe) and the input unchanged when it fails.                   *)
(***************************************************************************)
C17_OptionalNeverFails ==
    (comb \in {"optional", "optionalMaybe"} /\ pc = "done") =>
        LET r == Run(parsers[1], input) IN
        /\ result.ok
        /\ IF r.ok
           THEN result.val = r.val /\ result.rem = r.rem
           ELSE /\ result.rem = input
                /\ result.val = (IF comb = "optional" THEN parsers[2] ELSE "null")

C17_Witness ==
    /\ comb = "optional" /\ pc = "done"
    /\ ~calls[1].res.ok /\ input # <<>>
    /\ result.ok /\ result.val = 7 /\ result.rem = input

(***************************************************************************)
(* C18: many1(p) fails exactly when many(p) returns the empty list, and    *)
(* otherwise returns the list and the remaining input many(p) returns.     *)
(***************************************************************************)
C18_Many1IsManyWithMinimumOne ==
    (comb = "many1" /\ pc = "done") =>
        LET m == many(parsers[1], input) IN
        /\ ~Loops(m)
        /\ ~result.ok <=> m.val = <<>>
        /\ result.ok => (result.val = m.val /\ result.rem = m.rem)

(***************************************************************************)
(* C19: map(p, f1..fk) succeeds exactly when p does, with p's remaining    *)
(* input and the value fk(...f2(f1(v))...); map(p, identity) returns what  *)
(* p returns.                                                              *)
(***************************************************************************)
C19_MapAppliesLeftToRight ==
    (comb = "map" /\ pc = "done") =>
        LET r == Run(parsers[1], input)
            fs == Tail(parsers)
        IN /\ result.ok <=> r.ok
           /\ result.ok => (result.rem = r.rem /\ result.val = Piped(fs, r.val))
           /\ (\A i \in 1..Len(fs) : fs[i] = "id") => SameResult(result, r)

C19_Witness ==
    /\ comb = "map" /\ pc = "done" /\ result.ok
    /\ Tail(parsers) = <<"neg", "abs">>
    /\ result.rem # input
    /\ result.val # Nested(Tail(parsers), calls[1].res.val)

(***************************************************************************)
(* C20: a success of lookahead, peek, followedBy or notFollowedBy returns  *)
(* the input it was given as its remaining input.                          *)
(***************************************************************************)
C20_LookaheadNeverConsumes ==
    (comb \in {"lookahead", "peek", "followedBy", "notFollowedBy"}
        /\ pc = "done" /\ result.ok) => result.rem = input

C20_Witness ==
    /\ comb \in {"lookahead", "peek"} /\ pc = "done" /\ result.ok
    /\ calls[1].res.rem # input
    /\ result.rem = input /\ result.val = calls[1].res.val

(***************************************************************************)
(* C29: parse returns null only if the parser failed or left a character   *)
(* that is not white space.                                                *)
(***************************************************************************)
C29_NullMeansFailure ==
    (comb = "parse" /\ pc = "done" /\ ~result.ok) =>
        LET r == Run(parsers[1], input) IN ~r.ok \/ ~OnlyWhiteSpace(r.rem)

(***************************************************************************)
(* C21: sepEndBy / sepEndBy1 return the items sepBy / sepBy1 return, fail  *)
(* when they fail, and consume at most one separator after them: with at   *)
(* least one item, a separator that directly follows the last item is      *)
(* consumed and what comes after it is left.                               *)
(***************************************************************************)
C21_SepEndByOneTrailingSeparator ==
    (comb \in {"sepEndBy", "sepEndBy1"} /\ pc = "done") =>
        LET b == IF comb = "sepEndBy" THEN sepBy(parsers[1], parsers[2], input)
                 ELSE sepBy1(parsers[1], parsers[2], input)
            t == Run(parsers[2], b.rem)
        IN /\ ~Loops(b)
           /\ result.ok <=> b.ok
           /\ result.ok =>
                 /\ result.val = b.val
                 /\ result.rem = b.rem \/ (t.ok /\ result.rem = t.rem)
                 /\ Len(b.val) > 0 => result.rem = (IF t.ok THEN t.rem ELSE b.rem)
                 /\ Len(calls) = 1

C21_Witness ==
    /\ comb = "sepEndBy" /\ pc = "done" /\ result.ok
    /\ parsers = <<"digit", "dash">>
    /\ Len(result.val) = 1
    /\ calls[1].res.ok /\ calls[1].res.rem # calls[1].inp
    /\ result.rem = <<"-">>

(***************************************************************************)
(* C22: endBy never fails and returns the values of the items that were    *)
(* followed by a successful terminator; an item whose terminator failed is *)
(* not in the list and the remaining input is the input that item was      *)
(* tried on.                                                               *)
(***************************************************************************)
RECURSIVE Terminated(_)
\* the values of the items followed by their terminator, the pair having consumed input
Terminated(cs) ==
    IF Len(cs) < 2 THEN <<>>
    ELSE IF cs[1].who = "item" /\ cs[1].res.ok /\ cs[2].res.ok /\ cs[2].res.rem # cs[1].inp
         THEN <<cs[1].res.val>> \o Terminated(Tail(Tail(cs)))
         ELSE Terminated(Tail(cs))

Unterminated ==
    /\ Len(calls) >= 2
    /\ PrevCall.who = "item" /\ PrevCall.res.ok
    /\ LastCall.who = "term" /\ ~LastCall.res.ok

C22_EndByLeavesUnterminatedItem ==
    (comb = "endBy" /\ pc = "done") =>
        /\ result.ok
        /\ result.val = Terminated(calls)
        /\ Unterminated =>
              /\ result.rem = PrevCall.inp
              /\ result.val = Terminated(SubSeq(calls, 1, Len(calls) - 2))

C22_Witness ==
    /\ comb = "endBy" /\ pc = "done" /\ result.ok
    /\ parsers = <<"digit", "dash">>
    /\ Unterminated
    /\ Len(result.val) = 1
    /\ Len(result.rem) = 1 /\ PrevCall.res.rem # PrevCall.inp

(***************************************************************************)
(* C28: when the item fails on the input sepEndBy is given, sepEndBy       *)
(* returns the empty list and that input, even when the input begins with  *)
(* a separator.                                                            *)
(***************************************************************************)
C28_SepEndByNoItemsConsumesNothing ==
    (comb = "sepEndBy" /\ pc = "done" /\ ~Run(parsers[1], input).ok) =>
        (result.ok /\ result.val = <<>> /\ result.rem = input)

(***************************************************************************)
(* C23: the list interleaved returns is empty or of odd length and         *)
(* alternates item value, separator value, ..., item value; a separator    *)
(* whose next item failed is not in the list and the remaining input is    *)
(* the input that separator was tried on.                                  *)
(***************************************************************************)
RECURSIVE SeparatedPairs(_)
SeparatedPairs(cs) ==
    IF Len(cs) < 2 \/ ~cs[1].res.ok \/ ~cs[2].res.ok THEN <<>>
    ELSE <<cs[1].res.val, cs[2].res.val>> \o SeparatedPairs(Tail(Tail(cs)))

\* first item, then every separator with the item after it, while both succeed
Alternation(cs) ==
    IF cs = <<>> \/ ~cs[1].res.ok THEN <<>>
    ELSE <<cs[1].res.val>> \o SeparatedPairs(Tail(cs))

DanglingSeparator ==
    /\ Len(calls) >= 2
    /\ PrevCall.who = "sep" /\ PrevCall.res.ok
    /\ LastCall.who = "item" /\ ~LastCall.res.ok

C23_InterleavedAlternates ==
    (comb = "interleaved" /\ pc = "done") =>
        /\ result.ok
        /\ Len(result.val) = 0 \/ Len(result.val) % 2 = 1
        /\ result.val = Alternation(calls)
        /\ \A k \in 1..Len(result.val) :
              calls[k].who = (IF k % 2 = 1 THEN "item" ELSE "sep")
        /\ parsers = <<"digit", "dash">> =>
              \A k \in 1..Len(result.val) :
                 IF k % 2 = 1 THEN result.val[k] \in {1, 2} ELSE result.val[k] = Code("-")
        /\ DanglingSeparator => result.rem = PrevCall.inp

C23_Witness ==
    /\ comb = "interleaved" /\ pc = "done" /\ result.ok
    /\ parsers = <<"digit", "dash">>
    /\ result.val = <<Code("1"), Code("-"), Code("2")>>
    /\ result.rem = <<>>

(***************************************************************************)
(* C24: chainl / chainr never fail: when the first term fails they return  *)
(* the default value and the input, otherwise the result of chainl1 /      *)
(* chainr1, which is the result leftAssoc / rightAssoc return.             *)
(***************************************************************************)
C24_ChainDefaultsOnFailure ==
    /\ (comb \in {"chainl", "chainr"} /\ pc = "done") =>
          LET r == IF comb = "chainl" THEN chainl1(parsers[1], parsers[2], input)
                   ELSE chainr1(parsers[1], parsers[2], input)
          IN /\ result.ok
             /\ r.ok <=> Run(parsers[1], input).ok
             /\ IF ~Run(parsers[1], input).ok
                THEN result.val = parsers[3] /\ result.rem = input
                ELSE SameResult(result, r)
    /\ (comb = "leftAssoc" /\ pc = "done") =>
          SameResult(result, chainl1(parsers[1], parsers[2], input))
    /\ (comb = "rightAssoc" /\ pc = "done") =>
          SameResult(result, chainr1(parsers[1], parsers[2], input))

C24_Witness ==
    /\ comb \in {"chainl", "chainr"} /\ pc = "done"
    /\ parsers[1] = "digit" /\ parsers[2] = "binop"
    /\ ~Run(parsers[1], input).ok /\ input # <<>>
    /\ result.ok /\ result.val = 7 /\ result.rem = input

(***************************************************************************)
(* C26: reduce returns failure when the parser it reduces is fail().       *)
(***************************************************************************)
C26_ReduceFailsWhenParserFails ==
    (comb = "reduce" /\ pc = "done" /\ parsers[1] = "fail") => ~result.ok

(***************************************************************************)
(* C27: prefix, postfix, leftAssoc and until terminate on every input,     *)
(* whatever sub-parsers they are given: their loop never comes back to an  *)
(* input it already was at.                                                *)
(***************************************************************************)
C27_OperatorLoopsTerminate ==
    comb \in {"prefix", "postfix", "leftAssoc", "until"} => pc # "diverged"

(***************************************************************************)
(* C30: two invocations of the same rule parser on the same input have     *)
(* the same outcome, whether the invocation called the definition thunk or *)
(* read the cache, in any order of invocations of the grammar's rules.     *)
(***************************************************************************)
C30_RuleParserDeterministic ==
    \A i, j \in 1..Len(glog) :
        (glog[i].rule = glog[j].rule /\ glog[i].inp = glog[j].inp) =>
            /\ glog[i].threw = glog[j].threw
            /\ SameResult(glog[i].res, glog[j].res)

C30_Witness ==
    /\ Len(glog) = 3
    /\ glog[1].rule = "b" /\ glog[3].rule = "b" /\ glog[2].rule = "a"
    /\ glog[1].inp = glog[3].inp
    /\ definitions["b"] = [ref |-> "a", via |-> "closure"]
    /\ definitions["a"] = [ref |-> "none", via |-> "closure"]
    /\ thunkCalls["b"] = 1 /\ cacheWrites["b"] = 1
    /\ glog[1].res.ok /\ glog[1].res.rem # glog[1].inp
    /\ SameResult(glog[1].res, glog[3].res)

(***************************************************************************)
(* C25: char given a string of more than one character, and regex given a  *)
(* pattern with the global flag, raise an error when the parser is built:  *)
(* no parser is returned, and none is run.                                 *)
(***************************************************************************)
Misuse ==
    \/ comb = "char" /\ Len(parsers[2]) > 1
    \/ comb = "regex" /\ parsers[2].global

C25_MisuseRejectedAtConstruction ==
    (comb \in {"char", "regex"} /\ pc # "construct" /\ Misuse) => pc = "threw"
====
